---- MODULE Spec2Model ----
(***************************************************************************)
(* Model of the backend of meatec-task-management: the task controller     *)
(* (getTasks, createTask, updateTask, deleteTask), the token utilities     *)
(* (generateToken, verifyToken), the account service (register, login)     *)
(* and the authentication middleware (authenticateToken).                  *)
(*                                                                         *)
(* A JavaScript string is a sequence of one-character strings; the values  *)
(* undefined and null are the one-element sequences Undefined and Null,    *)
(* which no sequence of characters equals.                                 *)
(***************************************************************************)
EXTENDS Integers, Sequences, FiniteSets, Bags, TLC

\* ------------------------------------------------------------------------
\* Bounds
\* ------------------------------------------------------------------------
\* number of accounts whose identity a task request can carry
NumUsers == 2
\* number of tasks that are ever created (ids 1..MaxTasks)
MaxTasks == 1
\* number of update/delete requests that can be between lookup and write
MaxReq == 1

\* ------------------------------------------------------------------------
\* JavaScript values and string functions
\* ------------------------------------------------------------------------
Undefined == <<"undefined">>
Null == <<"null">>

IsString(v) == v # Undefined /\ v # Null

\* StrWhiteSpaceChar, as far as the inputs of the model contain it
IsSpace(c) == c = " "

DecDigits == <<"0", "1", "2", "3", "4", "5", "6", "7", "8", "9">>

IsDigit(c) == \E i \in 1..Len(DecDigits) : DecDigits[i] = c

DigitVal(c) == (CHOOSE i \in 1..Len(DecDigits) : DecDigits[i] = c) - 1

RECURSIVE TrimStart(_)
TrimStart(s) ==
  IF s = <<>> THEN <<>>
  ELSE IF IsSpace(Head(s)) THEN TrimStart(Tail(s)) ELSE s

RECURSIVE TrimEnd(_)
TrimEnd(s) ==
  IF s = <<>> THEN <<>>
  ELSE IF IsSpace(s[Len(s)]) THEN TrimEnd(SubSeq(s, 1, Len(s) - 1)) ELSE s

\* String.prototype.trim
Trim(s) == TrimEnd(TrimStart(s))

\* the longest prefix of s made of decimal digits
RECURSIVE DigitPrefix(_)
DigitPrefix(s) ==
  IF s = <<>> THEN <<>>
  ELSE IF IsDigit(Head(s)) THEN <<Head(s)>> \o DigitPrefix(Tail(s)) ELSE <<>>

RECURSIVE RadixValue(_, _)
RadixValue(s, radix) ==
  IF s = <<>> THEN 0
  ELSE radix * RadixValue(SubSeq(s, 1, Len(s) - 1), radix) + DigitVal(s[Len(s)])

NaN == [nan |-> TRUE, val |-> 0]

Num(n) == [nan |-> FALSE, val |-> n]

\* parseInt(string) with no radix: leading white space is skipped, a sign is
\* accepted, then the longest prefix of digits is converted and whatever
\* follows it is ignored; NaN when there is no digit at that place.  (A "0x"
\* prefix selects radix 16; with the characters of the model its digits are
\* then the decimal ones.)
ParseInt(str) ==
  LET s0 == TrimStart(str)
      neg == s0 # <<>> /\ Head(s0) = "-"
      s1 == IF s0 # <<>> /\ Head(s0) \in {"-", "+"} THEN Tail(s0) ELSE s0
      hex == Len(s1) >= 2 /\ s1[1] = "0" /\ s1[2] \in {"x", "X"}
      s2 == IF hex THEN SubSeq(s1, 3, Len(s1)) ELSE s1
      ds == DigitPrefix(s2)
  IN IF ds = <<>> THEN NaN
     ELSE Num((IF neg THEN -1 ELSE 1) * RadixValue(ds, IF hex THEN 16 ELSE 10))

IsNaN(n) == n.nan

\* ------------------------------------------------------------------------
\* State
\* ------------------------------------------------------------------------
VARIABLES
  tasks,       \* the Tasks table: a set of task records, one per id
  nextTaskId,  \* the id the database gives to the next task
  now,         \* the clock
  createdBy,   \* for every id ever given to a task, the user who created it
  pending,     \* bag of update/delete requests between their lookup and write
  last,        \* the response being delivered, with its request
  users,       \* the Users table: a set of user records, one per id
  nextUserId,  \* the id the database gives to the next user
  authPending, \* bag of register requests between their lookup and insert
  authLast,    \* the response of register or login being delivered
  gate,        \* the last run of authenticateToken: request, response, next()
  client,      \* the browser: page, localStorage, auth state, requests in flight
  boot,        \* the server process: its environment and the start of index.ts
  board        \* the browser's task state: taskSlice and its thunks in flight

taskVars == <<tasks, nextTaskId, createdBy, pending, last>>

accountVars == <<users, nextUserId, authPending, authLast>>


\* ------------------------------------------------------------------------
\* Inputs of the task requests
\* ------------------------------------------------------------------------
UserIds == 1..NumUsers

\* req.user?.userId: 0 stands for a request that carries no identity
\* (req.user undefined), which the handlers test with !userId
NoIdentity == 0

Callers == {NoIdentity} \cup UserIds

\* :id path segments
IdStrings ==
  { <<"1">>, <<"2">>, <<"1", "x">>, <<"x", "1">>, <<"-", "1">> }

Body(t, d, s) == [title |-> t, description |-> d, status |-> s]

EmptyBody == Body(Undefined, Undefined, Undefined)

CreateBodies ==
  { EmptyBody,
    Body(<<>>, Undefined, Undefined),
    Body(<<" ">>, Undefined, Undefined),
    Body(<<" ", "a", " ">>, Undefined, Undefined),
    Body(<<"a">>, <<" ", "d", " ">>, <<"COMPLETED">>),
    Body(<<"a">>, <<" ">>, <<"ARCHIVED">>) }

UpdateBodies ==
  { EmptyBody,
    Body(<<>>, Undefined, Undefined),
    Body(<<" ", "b">>, <<"d", " ">>, <<"COMPLETED">>),
    Body(Undefined, Null, <<"PENDING">>),
    Body(Undefined, Undefined, <<"ARCHIVED">>),
    Body(Null, Undefined, Undefined) }

\* ------------------------------------------------------------------------
\* The Tasks table behind the Prisma client
\* ------------------------------------------------------------------------
\* enum TaskStatus of the generated client
TaskStatus == { <<"PENDING">>, <<"COMPLETED">> }

Task(id, title, description, status, userId, createdAt) ==
  [id |-> id, title |-> title, description |-> description,
   status |-> status, userId |-> userId, createdAt |-> createdAt]

\* prisma.task.findMany({ where: { userId } }) as a set
TasksOf(ts, userId) == { t \in ts : t.userId = userId }

\* the sequences that list the set ts by createdAt descending; rows with
\* equal createdAt come in an order the database chooses
RECURSIVE OrderedDesc(_)
OrderedDesc(ts) ==
  IF ts = {} THEN { <<>> }
  ELSE UNION { { <<t>> \o rest : rest \in OrderedDesc(ts \ {t}) } :
               t \in { x \in ts : \A y \in ts : y.createdAt <= x.createdAt } }

\* the sequences that list the set ts by createdAt ascending
RECURSIVE OrderedAsc(_)
OrderedAsc(ts) ==
  IF ts = {} THEN { <<>> }
  ELSE UNION { { <<t>> \o rest : rest \in OrderedAsc(ts \ {t}) } :
               t \in { x \in ts : \A y \in ts : y.createdAt >= x.createdAt } }

\* a findMany with orderBy: { createdAt: 'asc' }
FindManyAscending(ts, userId) == OrderedAsc(TasksOf(ts, userId))

\* prisma.task.findMany({ where: { userId }, orderBy: { createdAt: 'desc' } })
PrismaTaskFindMany(ts, userId) == OrderedDesc(TasksOf(ts, userId))

\* a lookup whose where clause leaves the owner out
FindFirstById(ts, taskId, userId) == { t \in ts : t.id = taskId }

\* prisma.task.findFirst({ where: { id: taskId, userId } }): the set of
\* matching rows, empty for null
PrismaTaskFindFirst(ts, taskId, userId) ==
  { t \in ts : t.id = taskId /\ t.userId = userId }

\* the row that where: { id: taskId } of update and delete selects
RowById(ts, taskId) == { t \in ts : t.id = taskId }

\* a delete that leaves the row in the table
DeleteNothing(ts, taskId) == ts

\* the table after prisma.task.delete({ where: { id: taskId } })
PrismaTaskDelete(ts, taskId) == ts \ RowById(ts, taskId)

\* a status column that takes any string
AnyStatus(status) == TRUE

\* the client rejects a status outside the enum before reaching the database
ValidStatus(status) == status \in TaskStatus

\* data of a create that stores the title as it was sent
CreateDataUntrimmed(body) ==
  [title |-> body.title,
   description |->
     IF IsString(body.description) /\ Trim(body.description) # <<>>
     THEN Trim(body.description) ELSE Null,
   status |->
     IF body.status = Undefined \/ body.status = Null \/ body.status = <<>>
     THEN <<"PENDING">> ELSE body.status]

\* data of prisma.task.create in createTask
CreateData(body) ==
  [title |-> Trim(body.title),
   description |->
     IF IsString(body.description) /\ Trim(body.description) # <<>>
     THEN Trim(body.description) ELSE Null,
   status |->
     IF body.status = Undefined \/ body.status = Null \/ body.status = <<>>
     THEN <<"PENDING">> ELSE body.status]

\* update data whose title is taken as it was sent
UpdateDataUntrimmed(body) ==
  [title |-> body.title,
   description |->
     IF body.description # Undefined
     THEN IF IsString(body.description) /\ Trim(body.description) # <<>>
          THEN Trim(body.description) ELSE Null
     ELSE Undefined,
   status |-> body.status]

\* data of prisma.task.update in updateTask; Undefined marks a key that the
\* spread leaves out
UpdateData(body) ==
  [title |-> IF body.title # Undefined THEN Trim(body.title) ELSE Undefined,
   description |->
     IF body.description # Undefined
     THEN IF IsString(body.description) /\ Trim(body.description) # <<>>
          THEN Trim(body.description) ELSE Null
     ELSE Undefined,
   status |-> body.status]

\* an update that writes all three columns, null for a key that is left out
ApplyUpdateAllColumns(t, data) ==
  [t EXCEPT
     !.title = IF data.title # Undefined THEN data.title ELSE @,
     !.description = IF data.description # Undefined THEN data.description ELSE Null,
     !.status = IF data.status # Undefined THEN data.status ELSE @]

\* an update under which a COMPLETED task keeps its status
ApplyUpdateCompletedFinal(t, data) ==
  [t EXCEPT
     !.title = IF data.title # Undefined THEN data.title ELSE @,
     !.description = IF data.description # Undefined THEN data.description ELSE @,
     !.status = IF data.status # Undefined /\ @ # <<"COMPLETED">>
                THEN data.status ELSE @]

\* the row after prisma.task.update({ where: { id }, data })
ApplyUpdate(t, data) ==
  [t EXCEPT
     !.title = IF data.title # Undefined THEN data.title ELSE @,
     !.description = IF data.description # Undefined THEN data.description ELSE @,
     !.status = IF data.status # Undefined THEN data.status ELSE @]

\* ------------------------------------------------------------------------
\* Responses
\* ------------------------------------------------------------------------
NoTasks == <<>>

Response(op, caller, id, body, code, error, log, out, changed) ==
  [op |-> op, caller |-> caller, id |-> id, body |-> body, code |-> code,
   error |-> error, log |-> log, tasks |-> out, changed |-> changed]

NoResponse ==
  Response("none", NoIdentity, <<>>, EmptyBody, 0, "", <<>>, NoTasks, FALSE)

Unauthenticated(op, caller, id, body) ==
  Response(op, caller, id, body, 401, "User not authenticated", <<>>, NoTasks, FALSE)

InternalError(op, caller, id, body, log) ==
  Response(op, caller, id, body, 500, "Internal server error", log, NoTasks, FALSE)

\* ------------------------------------------------------------------------
\* Task controller
\* ------------------------------------------------------------------------
\* a handler that forgets the identity check
NoIdentityCheck(userId) == TRUE

\* the negation of the handlers' first test, if (!userId)
Authenticated(userId) == userId # NoIdentity

\* res.json({ tasks, total: tasks.length })
TasksListResponse(caller, found) ==
  [op |-> "getTasks", caller |-> caller, id |-> <<>>, body |-> EmptyBody,
   code |-> 200, error |-> "", log |-> <<"findMany">>, tasks |-> found,
   changed |-> FALSE, total |-> Len(found)]

\* GET /api/tasks
GetTasks(caller) ==
  /\ last = NoResponse
  /\ IF ~Authenticated(caller)
     THEN last' = Unauthenticated("getTasks", caller, <<>>, EmptyBody)
     ELSE \E found \in PrismaTaskFindMany(tasks, caller) :
            last' = TasksListResponse(caller, found)
  /\ UNCHANGED <<tasks, nextTaskId, createdBy, now, pending>>
  /\ UNCHANGED <<accountVars, gate, client, boot, board>>

\* POST /api/tasks; dt is the time that passed since the previous insert and
\* cap the number of inserts that the run allows
CreateTaskWithin(caller, body, dt, cap) ==
  /\ last = NoResponse
  /\ nextTaskId <= cap
  /\ IF ~Authenticated(caller)
     THEN /\ last' = Unauthenticated("createTask", caller, <<>>, body)
          /\ UNCHANGED <<tasks, nextTaskId, createdBy, now>>
     ELSE IF ~IsString(body.title) \/ body.title = <<>> \/ Trim(body.title) = <<>>
     THEN /\ last' = Response("createTask", caller, <<>>, body, 400,
                              "Title is required", <<>>, NoTasks, FALSE)
          /\ UNCHANGED <<tasks, nextTaskId, createdBy, now>>
     ELSE LET data == CreateData(body)
              task == Task(nextTaskId, data.title, data.description,
                           data.status, caller, now + dt)
          IN IF ~ValidStatus(data.status)
             THEN /\ last' = InternalError("createTask", caller, <<>>, body,
                                           <<"create">>)
                  /\ UNCHANGED <<tasks, nextTaskId, createdBy, now>>
             ELSE /\ tasks' = tasks \cup {task}
                  /\ nextTaskId' = nextTaskId + 1
                  /\ createdBy' = [i \in 1..nextTaskId |->
                                     IF i = nextTaskId THEN caller ELSE createdBy[i]]
                  /\ now' = now + dt
                  /\ last' = Response("createTask", caller, <<>>, body, 201, "",
                                      <<"create">>, <<task>>, TRUE)
  /\ UNCHANGED pending
  /\ UNCHANGED <<accountVars, gate, client, boot, board>>

CreateTask(caller, body, dt) == CreateTaskWithin(caller, body, dt, MaxTasks)

\* a request of updateTask or deleteTask that waits for its write
Pending(op, caller, id, body, taskId) ==
  [op |-> op, caller |-> caller, id |-> id, body |-> body, taskId |-> taskId]

\* an update handler that looks at the title before it looks the task up
UpdateTaskLookupTitleFirst(caller, id, body) ==
  LET taskId == ParseInt(id)
      existingTask == PrismaTaskFindFirst(tasks, taskId.val, caller)
  IN
  /\ last = NoResponse
  /\ BagCardinality(pending) < MaxReq
  /\ IF ~Authenticated(caller)
     THEN /\ last' = Unauthenticated("updateTask", caller, id, body)
          /\ UNCHANGED pending
     ELSE IF IsNaN(taskId)
     THEN /\ last' = Response("updateTask", caller, id, body, 400,
                              "Invalid task ID", <<>>, NoTasks, FALSE)
          /\ UNCHANGED pending
     ELSE IF body.title = Null
     THEN /\ last' = InternalError("updateTask", caller, id, body, <<>>)
          /\ UNCHANGED pending
     ELSE IF body.title # Undefined /\ Trim(body.title) = <<>>
     THEN /\ last' = Response("updateTask", caller, id, body, 400,
                              "Title cannot be empty", <<>>, NoTasks, FALSE)
          /\ UNCHANGED pending
     ELSE IF existingTask = {}
     THEN /\ last' = Response("updateTask", caller, id, body, 404,
                              "Task not found or access denied",
                              <<"findFirst">>, NoTasks, FALSE)
          /\ UNCHANGED pending
     ELSE /\ pending' = pending (+) SetToBag({Pending("updateTask", caller, id,
                                                      body, taskId.val)})
          /\ UNCHANGED last
  /\ UNCHANGED <<tasks, nextTaskId, createdBy, now>>
  /\ UNCHANGED <<accountVars, gate, client, boot, board>>

\* PUT /api/tasks/:id up to the await of prisma.task.update, while fewer
\* than cap requests wait for their write
UpdateTaskLookupWithin(caller, id, body, cap) ==
  LET taskId == ParseInt(id)
      existingTask == PrismaTaskFindFirst(tasks, taskId.val, caller)
  IN
  /\ last = NoResponse
  /\ BagCardinality(pending) < cap
  /\ IF ~Authenticated(caller)
     THEN /\ last' = Unauthenticated("updateTask", caller, id, body)
          /\ UNCHANGED pending
     ELSE IF IsNaN(taskId)
     THEN /\ last' = Response("updateTask", caller, id, body, 400,
                              "Invalid task ID", <<>>, NoTasks, FALSE)
          /\ UNCHANGED pending
     ELSE IF existingTask = {}
     THEN /\ last' = Response("updateTask", caller, id, body, 404,
                              "Task not found or access denied",
                              <<"findFirst">>, NoTasks, FALSE)
          /\ UNCHANGED pending
     ELSE IF body.title = Null
     THEN \* null.trim() throws a TypeError, which the catch turns into 500
          /\ last' = InternalError("updateTask", caller, id, body, <<"findFirst">>)
          /\ UNCHANGED pending
     ELSE IF body.title # Undefined /\ Trim(body.title) = <<>>
     THEN /\ last' = Response("updateTask", caller, id, body, 400,
                              "Title cannot be empty", <<"findFirst">>,
                              NoTasks, FALSE)
          /\ UNCHANGED pending
     ELSE /\ pending' = pending (+) SetToBag({Pending("updateTask", caller, id,
                                                      body, taskId.val)})
          /\ UNCHANGED last
  /\ UNCHANGED <<tasks, nextTaskId, createdBy, now>>
  /\ UNCHANGED <<accountVars, gate, client, boot, board>>

\* PUT /api/tasks/:id up to the await of prisma.task.update
UpdateTaskLookup(caller, id, body) ==
  UpdateTaskLookupWithin(caller, id, body, MaxReq)

\* the rest of updateTask: prisma.task.update({ where: { id: taskId }, data })
UpdateTaskWrite(p) ==
  LET data == UpdateData(p.body)
      row == RowById(tasks, p.taskId)
      log == <<"findFirst", "update">>
  IN
  /\ last = NoResponse
  /\ BagIn(p, pending)
  /\ p.op = "updateTask"
  /\ pending' = pending (-) SetToBag({p})
  /\ IF row = {} \/ (data.status # Undefined /\ ~ValidStatus(data.status))
     THEN \* record to update not found, or a value outside the enum
          /\ last' = InternalError(p.op, p.caller, p.id, p.body, log)
          /\ UNCHANGED tasks
     ELSE LET old == CHOOSE t \in row : TRUE
              updatedTask == ApplyUpdate(old, data)
          IN /\ tasks' = (tasks \ {old}) \cup {updatedTask}
             /\ last' = Response(p.op, p.caller, p.id, p.body, 200, "", log,
                                 <<updatedTask>>, tasks' # tasks)
  /\ UNCHANGED <<nextTaskId, createdBy, now>>
  /\ UNCHANGED <<accountVars, gate, client, boot, board>>

\* DELETE /api/tasks/:id up to the await of prisma.task.delete, while
\* fewer than cap requests wait for their write
DeleteTaskLookupWithin(caller, id, cap) ==
  LET taskId == ParseInt(id)
      existingTask == PrismaTaskFindFirst(tasks, taskId.val, caller)
  IN
  /\ last = NoResponse
  /\ BagCardinality(pending) < cap
  /\ IF ~Authenticated(caller)
     THEN /\ last' = Unauthenticated("deleteTask", caller, id, EmptyBody)
          /\ UNCHANGED pending
     ELSE IF IsNaN(taskId)
     THEN /\ last' = Response("deleteTask", caller, id, EmptyBody, 400,
                              "Invalid task ID", <<>>, NoTasks, FALSE)
          /\ UNCHANGED pending
     ELSE IF existingTask = {}
     THEN /\ last' = Response("deleteTask", caller, id, EmptyBody, 404,
                              "Task not found or access denied",
                              <<"findFirst">>, NoTasks, FALSE)
          /\ UNCHANGED pending
     ELSE /\ pending' = pending (+) SetToBag({Pending("deleteTask", caller, id,
                                                      EmptyBody, taskId.val)})
          /\ UNCHANGED last
  /\ UNCHANGED <<tasks, nextTaskId, createdBy, now>>
  /\ UNCHANGED <<accountVars, gate, client, boot, board>>

\* DELETE /api/tasks/:id up to the await of prisma.task.delete
DeleteTaskLookup(caller, id) == DeleteTaskLookupWithin(caller, id, MaxReq)

\* the rest of deleteTask: prisma.task.delete({ where: { id: taskId } })
DeleteTaskWrite(p) ==
  LET row == RowById(tasks, p.taskId)
      log == <<"findFirst", "delete">>
  IN
  /\ last = NoResponse
  /\ BagIn(p, pending)
  /\ p.op = "deleteTask"
  /\ pending' = pending (-) SetToBag({p})
  /\ IF row = {}
     THEN \* record to delete does not exist
          /\ last' = InternalError(p.op, p.caller, p.id, p.body, log)
          /\ UNCHANGED tasks
     ELSE /\ tasks' = PrismaTaskDelete(tasks, p.taskId)
          /\ last' = Response(p.op, p.caller, p.id, p.body, 200,
                              "Task deleted successfully", log, NoTasks, TRUE)
  /\ UNCHANGED <<nextTaskId, createdBy, now>>
  /\ UNCHANGED <<accountVars, gate, client, boot, board>>

\* the response reaches the client
Deliver ==
  /\ last # NoResponse
  /\ last' = NoResponse
  /\ UNCHANGED <<tasks, nextTaskId, createdBy, now, pending>>
  /\ UNCHANGED <<accountVars, gate, client, boot, board>>

\* ------------------------------------------------------------------------
\* Token utilities (utils/jwt.ts)
\* ------------------------------------------------------------------------
\* the signing secret: process.env.JWT_SECRET || 'your-secret-key'
JWT_SECRET == "your-secret-key"

\* expiresIn: '24h', in hours, the unit of the clock
ExpiresIn == 24

\* the clock advances in steps of half a token lifetime
ClockStep == ExpiresIn \div 2

\* number of steps the clock takes
MaxTicks == 2

MaxTime == MaxTicks * ClockStep + ExpiresIn

IsNumeral(s) == \E n \in 0..MaxTime : ToString(n) = s

StrToNum(s) == CHOOSE n \in 0..MaxTime : ToString(n) = s

Payload(userId, username) == [userId |-> userId, username |-> username]

\* jwt.sign(payload, secret, { expiresIn }) at time t: the compact token as a
\* string made of a header, the claims userId, iat and exp, the characters
\* of username, and the signature, which only the signing secret produces
JwtSign(payload, secret, expiresIn, t) ==
  <<"jwt", ToString(payload.userId), ToString(t), ToString(t + expiresIn)>>
    \o payload.username \o <<"sig", secret>>

JwtWellFormed(token) ==
  /\ Len(token) >= 6
  /\ token[1] = "jwt"
  /\ \A i \in 2..4 : IsNumeral(token[i])
  /\ token[Len(token) - 1] = "sig"

\* the claims of a well-formed token
JwtDecode(token) ==
  [userId |-> StrToNum(token[2]),
   username |-> SubSeq(token, 5, Len(token) - 2),
   iat |-> StrToNum(token[3]),
   exp |-> StrToNum(token[4])]

JwtSignature(token) == token[Len(token)]

NoPayload == [userId |-> 0, username |-> <<>>, iat |-> 0, exp |-> 0]

JwtError(name) == [ok |-> FALSE, error |-> name, payload |-> NoPayload]

\* a jwt.verify that still accepts a token at the instant of its expiry
JwtVerifyLateExpiry(token, secret, t) ==
  IF ~JwtWellFormed(token) THEN JwtError("JsonWebTokenError")
  ELSE IF JwtSignature(token) # secret THEN JwtError("JsonWebTokenError")
  ELSE IF t > JwtDecode(token).exp THEN JwtError("TokenExpiredError")
  ELSE [ok |-> TRUE, error |-> "", payload |-> JwtDecode(token)]

\* jwt.verify(token, secret) at time t: it throws JsonWebTokenError for a
\* malformed token or a signature of another secret and TokenExpiredError
\* once the clock has reached exp; otherwise it returns the claims
JwtVerify(token, secret, t) ==
  IF ~JwtWellFormed(token) THEN JwtError("JsonWebTokenError")
  ELSE IF JwtSignature(token) # secret THEN JwtError("JsonWebTokenError")
  ELSE IF t >= JwtDecode(token).exp THEN JwtError("TokenExpiredError")
  ELSE [ok |-> TRUE, error |-> "", payload |-> JwtDecode(token)]

\* a generateToken that signs with a secret other than the one verifyToken uses
GenerateTokenOtherSecret(payload, t) ==
  JwtSign(payload, "another-secret", ExpiresIn, t)

\* generateToken(payload), called at time t
GenerateToken(payload, t) == JwtSign(payload, JWT_SECRET, ExpiresIn, t)

\* a verifyToken that does not look at exp
VerifyTokenIgnoringExpiry(token, t) == JwtVerify(token, JWT_SECRET, 0)

\* verifyToken(token), called at time t
VerifyToken(token, t) == JwtVerify(token, JWT_SECRET, t)

\* ------------------------------------------------------------------------
\* Account service (controllers/authController)
\* ------------------------------------------------------------------------
\* shortest password that register accepts
MinPasswordLength == 6

\* cost factor of bcrypt.hash
SaltRounds == 10

\* number of register requests that can be between lookup and insert
MaxAuthReq == 2

\* the salts bcrypt draws
BcryptSalts == {"salt1", "salt2"}

\* bcrypt.hash(password, rounds) with the salt it drew
BcryptHash(password, rounds, salt) ==
  <<"$2b$", ToString(rounds), salt>> \o password

\* bcrypt.compare(password, hash): hashes password with the cost and salt
\* that hash carries and compares
BcryptCompare(password, hash) ==
  /\ Len(hash) >= 3
  /\ IsNumeral(hash[2])
  /\ hash = BcryptHash(password, StrToNum(hash[2]), hash[3])

Pw(c, n) == [i \in 1..n |-> c]

Usernames == { Undefined, <<>>, <<"a">>, <<"A">> }

Passwords ==
  { Undefined, <<>>, Pw("1", MinPasswordLength - 1), Pw("1", MinPasswordLength),
    Pw("2", MinPasswordLength + 1) }

User(id, username, password) ==
  [id |-> id, username |-> username, password |-> password]

\* a lookup that finds no row
FindUniqueNothing(us, username) == {}

\* prisma.user.findUnique({ where: { username } }): the set of matching rows
PrismaUserFindUnique(us, username) == { u \in us : u.username = username }

\* a Users table without the unique index on username
NoUniqueIndex(us, username) == TRUE

\* the unique index on username: whether an insert of username is accepted
UniqueIndexAllows(us, username) == \A u \in us : u.username # username

\* !username, !password
Provided(v) == IsString(v) /\ v # <<>>

\* a length test that also turns away the shortest allowed password
PasswordTooShortOffByOne(password) == Len(password) <= MinPasswordLength

\* password.length < 6
PasswordTooShort(password) == Len(password) < MinPasswordLength

\* whether the Users table holds a user of this name
Registered(us, username) == \E u \in us : u.username = username

NoToken == <<>>

NoUser == [id |-> 0, username |-> <<>>]

AuthResponse(op, username, password, existed, code, error, token, user, log, changed) ==
  [op |-> op, username |-> username, password |-> password,
   existed |-> existed, code |-> code, error |-> error, token |-> token,
   user |-> user, log |-> log, changed |-> changed]

NoAuthResponse ==
  AuthResponse("none", Undefined, Undefined, FALSE, 0, "", NoToken, NoUser,
               <<>>, FALSE)

AuthError(op, username, password, existed, code, error, log) ==
  AuthResponse(op, username, password, existed, code, error, NoToken, NoUser,
               log, FALSE)

\* POST /api/auth/register up to the insert
RegisterLookup(username, password) ==
  LET existingUser == PrismaUserFindUnique(users, username)
  IN
  /\ authLast = NoAuthResponse
  /\ BagCardinality(authPending) < MaxAuthReq
  /\ IF ~Provided(username) \/ ~Provided(password)
     THEN /\ authLast' = AuthError("register", username, password,
                                   Registered(users, username), 400,
                                   "Username and password are required", <<>>)
          /\ UNCHANGED authPending
     ELSE IF PasswordTooShort(password)
     THEN /\ authLast' = AuthError("register", username, password,
                                   Registered(users, username), 400,
                                   "Password must be at least 6 characters long",
                                   <<>>)
          /\ UNCHANGED authPending
     ELSE IF existingUser # {}
     THEN /\ authLast' = AuthError("register", username, password,
                                   Registered(users, username), 400,
                                   "Username already exists", <<"findUnique">>)
          /\ UNCHANGED authPending
     ELSE /\ authPending' = authPending (+)
                              SetToBag({[username |-> username,
                                         password |-> password,
                                         existed |-> Registered(users, username)]})
          /\ UNCHANGED authLast
  /\ UNCHANGED <<users, nextUserId, now>>
  /\ UNCHANGED <<taskVars, gate, client, boot, board>>

\* the rest of register: hash the password, insert the user, issue the token
RegisterPersist(p, salt) ==
  LET hashed == BcryptHash(p.password, SaltRounds, salt)
      user == User(nextUserId, p.username, hashed)
      log == <<"findUnique", "create">>
  IN
  /\ authLast = NoAuthResponse
  /\ BagIn(p, authPending)
  /\ nextUserId <= NumUsers
  /\ authPending' = authPending (-) SetToBag({p})
  \* the sequence behind the id advances whether or not the insert succeeds
  /\ nextUserId' = nextUserId + 1
  /\ IF ~UniqueIndexAllows(users, p.username)
     THEN \* unique constraint violation, which the catch turns into 500
          /\ authLast' = AuthError("register", p.username, p.password,
                                   p.existed, 500, "Internal server error", log)
          /\ UNCHANGED users
     ELSE /\ users' = users \cup {user}
          /\ authLast' =
               AuthResponse("register", p.username, p.password, p.existed, 201, "",
                            GenerateToken(Payload(user.id, user.username), now),
                            [id |-> user.id, username |-> user.username],
                            log, TRUE)
  /\ UNCHANGED now
  /\ UNCHANGED <<taskVars, gate, client, boot, board>>

\* a login that tells an unknown username from a wrong password
LoginOutcomeTelling(us, username, password, t) ==
  LET found == PrismaUserFindUnique(us, username)
  IN IF ~Provided(username) \/ ~Provided(password)
     THEN AuthError("login", username, password, FALSE, 400,
                    "Username and password are required", <<>>)
     ELSE IF found = {}
     THEN AuthError("login", username, password, FALSE, 404,
                    "User not found", <<"findUnique">>)
     ELSE LET user == CHOOSE u \in found : TRUE
          IN IF ~BcryptCompare(password, user.password)
             THEN AuthError("login", username, password, TRUE, 401,
                            "Invalid credentials", <<"findUnique">>)
             ELSE AuthResponse("login", username, password, TRUE, 200, "",
                               GenerateToken(Payload(user.id, user.username), t),
                               [id |-> user.id, username |-> user.username],
                               <<"findUnique">>, FALSE)

\* the response of login(username, password) at time t on the table us
LoginOutcome(us, username, password, t) ==
  LET found == PrismaUserFindUnique(us, username)
  IN IF ~Provided(username) \/ ~Provided(password)
     THEN AuthError("login", username, password, FALSE, 400,
                    "Username and password are required", <<>>)
     ELSE IF found = {}
     THEN AuthError("login", username, password, FALSE, 401,
                    "Invalid credentials", <<"findUnique">>)
     ELSE LET user == CHOOSE u \in found : TRUE
          IN IF ~BcryptCompare(password, user.password)
             THEN AuthError("login", username, password, TRUE, 401,
                            "Invalid credentials", <<"findUnique">>)
             ELSE AuthResponse("login", username, password, TRUE, 200, "",
                               GenerateToken(Payload(user.id, user.username), t),
                               [id |-> user.id, username |-> user.username],
                               <<"findUnique">>, FALSE)

\* POST /api/auth/login
Login(username, password) ==
  /\ authLast = NoAuthResponse
  /\ authLast' = LoginOutcome(users, username, password, now)
  /\ UNCHANGED <<users, nextUserId, authPending, now>>
  /\ UNCHANGED <<taskVars, gate, client, boot, board>>

\* the response reaches the client
DeliverAuth ==
  /\ authLast # NoAuthResponse
  /\ authLast' = NoAuthResponse
  /\ UNCHANGED <<users, nextUserId, authPending, now>>
  /\ UNCHANGED <<taskVars, gate, client, boot, board>>

\* time passes
Tick ==
  /\ authLast = NoAuthResponse
  /\ now + ClockStep <= MaxTicks * ClockStep
  /\ now' = now + ClockStep
  /\ UNCHANGED <<taskVars, accountVars, gate, client, boot, board>>

\* ------------------------------------------------------------------------
\* Auth gate (middleware/authMiddleware)
\* ------------------------------------------------------------------------
BearerPrefix == <<"B", "e", "a", "r", "e", "r", " ">>

\* a gate that takes whatever follows the first space, whatever the scheme
HasTokenAnyScheme(header) ==
  /\ IsString(header)
  /\ Len(header) >= 8
  /\ header[7] = " "
  /\ ~IsSpace(header[8])

\* the header begins with "Bearer " and a character that is no space follows
HasBearerToken(header) ==
  /\ IsString(header)
  /\ Len(header) >= 8
  /\ SubSeq(header, 1, 7) = BearerPrefix
  /\ ~IsSpace(header[8])

\* everything after the "Bearer " prefix
ExtractToken(header) == SubSeq(header, 8, Len(header))

NoRequestUser == Payload(NoIdentity, <<>>)

GateRun(header, at, code, error, user, next, verified) ==
  [header |-> header, at |-> at, code |-> code, error |-> error,
   user |-> user, next |-> next, verified |-> verified]

\* before any request
NoGateRun == GateRun(Undefined, 0, 0, "", NoRequestUser, FALSE, <<>>)

\* a gate whose error branch lacks its return: it answers 403 and goes on to
\* the next handler
GateOutcomeFallThrough(header, t) ==
  IF ~HasBearerToken(header)
  THEN GateRun(header, t, 401, "Access token required", NoRequestUser, FALSE, <<>>)
  ELSE LET token == ExtractToken(header)
           decoded == VerifyToken(token, t)
       IN IF ~decoded.ok
          THEN GateRun(header, t, 403, "Invalid or expired token",
                       NoRequestUser, TRUE, <<token>>)
          ELSE GateRun(header, t, 0, "",
                       Payload(decoded.payload.userId, decoded.payload.username),
                       TRUE, <<token>>)

\* authenticateToken(req, res, next) on a request with this Authorization
\* header at time t; code 0 stands for no response written
GateOutcome(header, t) ==
  IF ~HasBearerToken(header)
  THEN GateRun(header, t, 401, "Access token required", NoRequestUser, FALSE, <<>>)
  ELSE LET token == ExtractToken(header)
           decoded == VerifyToken(token, t)
       IN IF ~decoded.ok
          THEN GateRun(header, t, 403, "Invalid or expired token",
                       NoRequestUser, FALSE, <<token>>)
          ELSE GateRun(header, t, 0, "",
                       Payload(decoded.payload.userId, decoded.payload.username),
                       TRUE, <<token>>)

\* identities that tokens are issued for
GateIdentities == { Payload(1, <<"a">>), Payload(2, <<"A">>) }

\* the strings a client may send as token: tokens the server issued up to
\* time t, a token signed with another secret, a token cut short, and text
\* that is no token
TokenStrings(t) ==
  { GenerateToken(p, iat) :
      p \in GateIdentities, iat \in { i \in {0, ClockStep} : i <= t } }
  \cup { JwtSign(Payload(1, <<"a">>), "another-secret", ExpiresIn, 0),
         SubSeq(GenerateToken(Payload(1, <<"a">>), 0), 1, 5),
         <<"x">> }

Schemes ==
  { <<"B", "e", "a", "r", "e", "r">>, <<"b", "e", "a", "r", "e", "r">>,
    <<"D", "i", "g", "e", "s", "t">> }

\* the Authorization headers of the requests
Headers(t) ==
  { Undefined, <<>>, <<"B", "e", "a", "r", "e", "r">>, BearerPrefix,
    <<"I", "n", "v", "a", "l", "i", "d", "F", "o", "r", "m", "a", "t">> }
  \cup TokenStrings(t)
  \cup { scheme \o spaces \o token \o trail :
           scheme \in Schemes, spaces \in { <<" ">>, <<" ", " ">> },
           token \in TokenStrings(t), trail \in { <<>>, <<" ">> } }

\* one request passes the gate
AuthenticateToken(header) ==
  /\ gate' = GateOutcome(header, now)
  /\ UNCHANGED <<taskVars, accountVars, now, client, boot, board>>

\* ------------------------------------------------------------------------
\* Browser client (utils/axiosConfig, store/slices/authSlice and taskSlice)
\* ------------------------------------------------------------------------
\* number of requests of the client that wait for their response
MaxInflight == 1

Paths == { "/login", "/register", "/dashboard" }

AuthCalls == { "loginUser", "registerUser" }

TaskCalls == { "fetchTasks", "createTask", "updateTask", "deleteTask" }

\* JSON.stringify(user) and JSON.parse of the stored string
JsonStringify(user) == <<"{", ToString(user.id)>> \o user.username \o <<"}">>

JsonParse(str) ==
  [id |-> StrToNum(str[2]), username |-> SubSeq(str, 3, Len(str) - 1)]

\* the users of the browser, as the server names them
ClientUsers == { [id |-> p.userId, username |-> p.username] : p \in GateIdentities }

NoReply == [call |-> "none", status |-> 0, path |-> "/login", header |-> Undefined]

\* authSlice initialState, read from localStorage when the page loads;
\* Null stands for a storage entry that is absent
InitialAuthState(lsToken, lsUser) ==
  [user |-> IF lsUser # Null THEN JsonParse(lsUser) ELSE NoUser,
   token |-> lsToken,
   isAuthenticated |-> lsToken # Null]

\* the page at path with this localStorage, freshly loaded
LoadPage(path, lsToken, lsUser) ==
  [path |-> path, lsToken |-> lsToken, lsUser |-> lsUser,
   auth |-> InitialAuthState(lsToken, lsUser),
   inflight |-> EmptyBag, reply |-> NoReply]

\* authSlice reducer logout, with its removal of both storage entries
LogoutReducer(c) ==
  [c EXCEPT !.auth = [user |-> NoUser, token |-> Null, isAuthenticated |-> FALSE],
            !.lsToken = Null,
            !.lsUser = Null]

\* loginUser / registerUser on a 2xx response: both entries are stored, and
\* the fulfilled reducer sets the state
AuthFulfilled(c, token, user) ==
  [c EXCEPT !.lsToken = token,
            !.lsUser = JsonStringify(user),
            !.auth = [user |-> user, token |-> token, isAuthenticated |-> TRUE]]

\* request interceptor of the api instance: the header it sets, if any
ApiRequestHeader(c) ==
  IF c.lsToken # Null /\ c.lsToken # <<>> THEN BearerPrefix \o c.lsToken ELSE Undefined

\* createAuthConfig of taskSlice: `Bearer ${getAuthToken()}`
CreateAuthConfig(c) ==
  BearerPrefix \o (IF c.lsToken = Null THEN <<"n", "u", "l", "l">> ELSE c.lsToken)

\* a response interceptor that removes the token and leaves the rest
InterceptorTokenOnly(c, status) ==
  IF status = 401 /\ c.path \notin {"/login", "/register"}
  THEN LoadPage("/login", Null, c.lsUser)
  ELSE c

\* response interceptor of the api instance on an error response: on 401
\* away from /login and /register it removes the token, dispatches logout
\* and sets window.location.href, which loads the login page anew
ApiResponseInterceptor(c, status) ==
  IF status = 401 /\ c.path \notin {"/login", "/register"}
  THEN LET cleared == LogoutReducer([c EXCEPT !.lsToken = Null])
       IN LoadPage("/login", cleared.lsToken, cleared.lsUser)
  ELSE c

\* the calls of taskSlice go through axios itself, which has no interceptor
AxiosResponseInterceptor(c, status) == c

Request(call, header) == [call |-> call, header |-> header]

\* status codes of the auth routes
AuthStatuses(call) ==
  IF call = "loginUser" THEN {200, 400, 401, 500} ELSE {201, 400, 500}

\* status codes of the task routes: the gate's answer if it refuses the
\* header at time t, a code of the handlers otherwise
TaskStatuses(header, t) ==
  IF GateOutcome(header, t).code # 0 THEN { GateOutcome(header, t).code }
  ELSE {200, 401, 404, 500}

\* dispatch(loginUser(credentials)) on the login page and
\* dispatch(registerUser(credentials)) on the register page
SendAuthCall(call) ==
  /\ call \in AuthCalls
  /\ client.path = (IF call = "loginUser" THEN "/login" ELSE "/register")
  /\ BagCardinality(client.inflight) < MaxInflight
  /\ client' = [client EXCEPT
                  !.inflight = @ (+) SetToBag({Request(call, ApiRequestHeader(client))}),
                  !.reply = NoReply]
  /\ UNCHANGED <<taskVars, accountVars, gate, now, boot, board>>

\* dispatch of a task thunk on the dashboard, which renders for a session
SendTaskCall(call) ==
  /\ call \in TaskCalls
  /\ client.path = "/dashboard"
  /\ client.auth.isAuthenticated
  /\ client.auth.user # NoUser
  /\ BagCardinality(client.inflight) < MaxInflight
  /\ client' = [client EXCEPT
                  !.inflight = @ (+) SetToBag({Request(call, CreateAuthConfig(client))}),
                  !.reply = NoReply]
  /\ UNCHANGED <<taskVars, accountVars, gate, now, boot, board>>

\* the response to loginUser or registerUser arrives
ReceiveAuth(r, status, user) ==
  /\ BagIn(r, client.inflight)
  /\ r.call \in AuthCalls
  /\ status \in AuthStatuses(r.call)
  /\ LET received == [client EXCEPT
                        !.inflight = @ (-) SetToBag({r}),
                        !.reply = [call |-> r.call, status |-> status,
                                   path |-> client.path, header |-> r.header]]
     IN client' =
          IF status \in {200, 201}
          THEN AuthFulfilled(received, GenerateToken(Payload(user.id, user.username), now), user)
          ELSE [ApiResponseInterceptor(received, status) EXCEPT !.reply = received.reply]
  /\ UNCHANGED <<taskVars, accountVars, gate, now, boot, board>>

\* the response to a task thunk arrives; a rejected thunk only sets the
\* error of the task state
ReceiveTask(r, status) ==
  /\ BagIn(r, client.inflight)
  /\ r.call \in TaskCalls
  /\ status \in TaskStatuses(r.header, now)
  /\ LET received == [client EXCEPT
                        !.inflight = @ (-) SetToBag({r}),
                        !.reply = [call |-> r.call, status |-> status,
                                   path |-> client.path, header |-> r.header]]
     IN client' = [AxiosResponseInterceptor(received, status) EXCEPT !.reply = received.reply]
  /\ UNCHANGED <<taskVars, accountVars, gate, now, boot, board>>

\* handleLogout of the dashboard
Logout ==
  /\ client.path = "/dashboard"
  /\ client.auth.isAuthenticated
  /\ client' = [LogoutReducer(client) EXCEPT !.path = "/login", !.reply = NoReply]
  /\ UNCHANGED <<taskVars, accountVars, gate, now, boot, board>>

\* the router: the dashboard sends a visitor without session to /login and
\* the register page sends a visitor with a session to /dashboard
Navigate(path) ==
  /\ path \in Paths
  /\ path # client.path
  /\ client' = [client EXCEPT
                  !.path = IF path = "/dashboard" /\ ~client.auth.isAuthenticated
                           THEN "/login"
                           ELSE IF path = "/register" /\ client.auth.isAuthenticated
                           THEN "/dashboard"
                           ELSE path,
                  !.reply = NoReply]
  /\ UNCHANGED <<taskVars, accountVars, gate, now, boot, board>>

\* ------------------------------------------------------------------------
\* Task state of the browser (store/slices/taskSlice)
\* ------------------------------------------------------------------------
\* number of task thunks of the browser that wait for their response
MaxThunks == 3

\* a task thunk in flight: its request with the Authorization header, the
\* task id and status it names, and, once the server has answered, the
\* status code and the data of the response
Thunk(call, header, id, status, phase, code, payload) ==
  [call |-> call, header |-> header, id |-> id, status |-> status,
   phase |-> phase, code |-> code, payload |-> payload]

SentThunk(call, header, id, status) ==
  Thunk(call, header, id, status, "sent", 0, <<>>)

\* taskSlice initialState, and no thunk in flight
InitialBoard ==
  [tasks |-> <<>>, loading |-> FALSE, total |-> 0, thunks |-> EmptyBag]

\* the pending reducer of each of the four thunks
ThunkPending(b) == [b EXCEPT !.loading = TRUE]

\* the rejected reducer of each of the four thunks
ThunkRejected(b) == [b EXCEPT !.loading = FALSE]

\* fetchTasks.fulfilled
FetchTasksFulfilled(b, payload) ==
  [b EXCEPT !.loading = FALSE, !.tasks = payload, !.total = Len(payload)]

\* createTask.fulfilled: state.tasks.unshift(action.payload)
CreateTaskFulfilled(b, task) ==
  [b EXCEPT !.loading = FALSE, !.tasks = <<task>> \o @, !.total = @ + 1]

\* updateTask.fulfilled: the entry found by findIndex on the id is replaced
UpdateTaskFulfilled(b, task) ==
  LET found == { i \in 1..Len(b.tasks) : b.tasks[i].id = task.id }
      index == IF found = {} THEN 0
               ELSE CHOOSE i \in found : \A j \in found : i <= j
  IN [b EXCEPT !.loading = FALSE,
               !.tasks = [i \in 1..Len(@) |-> IF i = index THEN task ELSE @[i]]]

\* s without the entries whose id is taskId
RECURSIVE FilterOutId(_, _)
FilterOutId(s, taskId) ==
  IF s = <<>> THEN <<>>
  ELSE IF Head(s).id = taskId THEN FilterOutId(Tail(s), taskId)
  ELSE <<Head(s)>> \o FilterOutId(Tail(s), taskId)

\* deleteTask.fulfilled
DeleteTaskFulfilled(b, taskId) ==
  [b EXCEPT !.loading = FALSE, !.tasks = FilterOutId(@, taskId), !.total = @ - 1]

\* the reducer that runs when the response of thunk r arrives
ThunkSettled(b, r) ==
  IF r.code \notin {200, 201} THEN ThunkRejected(b)
  ELSE IF r.call = "fetchTasks" THEN FetchTasksFulfilled(b, r.payload)
  ELSE IF r.call = "createTask" THEN CreateTaskFulfilled(b, r.payload[1])
  ELSE IF r.call = "updateTask" THEN UpdateTaskFulfilled(b, r.payload[1])
  ELSE DeleteTaskFulfilled(b, r.id)

\* dispatch of a thunk: createAuthConfig reads the stored token, the request
\* leaves, and the pending reducer runs
Dispatched(b, c, call, id, status) ==
  [ThunkPending(b) EXCEPT
     !.thunks = @ (+) SetToBag({SentThunk(call, CreateAuthConfig(c), id, status)})]

\* the dashboard renders its content: `if (!isAuthenticated || !user) return null`
DashboardRendered ==
  /\ client.path = "/dashboard"
  /\ client.auth.isAuthenticated
  /\ client.auth.user # NoUser

\* loginUser or registerUser fulfilled for this user, the redirect to
\* /dashboard, and the mount of the dashboard, where the effect of TaskList
\* and the effect of Dashboard each dispatch fetchTasks
SignIn(user) ==
  /\ client.path \in {"/login", "/register"}
  /\ ~client.auth.isAuthenticated
  /\ BagCardinality(board.thunks) + 2 <= MaxThunks
  /\ LET token == GenerateToken(Payload(user.id, user.username), now)
         session == [AuthFulfilled(client, token, user) EXCEPT
                       !.path = "/dashboard", !.reply = NoReply]
         first == Dispatched(board, session, "fetchTasks", 0, <<>>)
     IN /\ client' = session
        /\ board' = Dispatched(first, session, "fetchTasks", 0, <<>>)
  /\ UNCHANGED <<taskVars, accountVars, gate, now, boot>>

\* handleLogout: dispatch(logout()) and navigate('/login'); the task state
\* and the thunks in flight stay as they are
SignOut ==
  /\ DashboardRendered
  /\ client' = [LogoutReducer(client) EXCEPT !.path = "/login", !.reply = NoReply]
  /\ UNCHANGED <<taskVars, accountVars, gate, now, boot, board>>

\* another tab of the same origin logs out: both entries leave the shared
\* localStorage, the store of this tab is not told
OtherTabLogout ==
  /\ client.lsToken # Null
  /\ client' = [client EXCEPT !.lsToken = Null, !.lsUser = Null]
  /\ UNCHANGED <<taskVars, accountVars, gate, now, boot, board>>

\* number of create requests that the server has not handled yet
CreatesSent ==
  LET sent == { r \in BagToSet(board.thunks) :
                  r.call = "createTask" /\ r.phase = "sent" }
  IN IF sent = {} THEN 0
     ELSE CopiesIn(CHOOSE r \in sent : TRUE, board.thunks)

\* TaskForm submit for a new task; the button is disabled while loading
SubmitCreate ==
  /\ DashboardRendered
  /\ ~board.loading
  /\ BagCardinality(board.thunks) < MaxThunks
  /\ nextTaskId + CreatesSent <= MaxTasks
  /\ board' = Dispatched(board, client, "createTask", 0, <<>>)
  /\ UNCHANGED <<taskVars, accountVars, gate, now, boot, client>>

\* TaskItem handleStatusToggle on the i-th task shown; the button is
\* disabled while loading
ToggleStatus(i) ==
  /\ DashboardRendered
  /\ ~board.loading
  /\ BagCardinality(board.thunks) < MaxThunks
  /\ i \in 1..Len(board.tasks)
  /\ LET task == board.tasks[i]
         newStatus == IF task.status = <<"PENDING">> THEN <<"COMPLETED">>
                      ELSE <<"PENDING">>
     IN board' = Dispatched(board, client, "updateTask", task.id, newStatus)
  /\ UNCHANGED <<taskVars, accountVars, gate, now, boot, client>>

\* TaskItem handleDelete on the i-th task shown; the button is disabled
\* while loading
ConfirmDelete(i) ==
  /\ DashboardRendered
  /\ ~board.loading
  /\ BagCardinality(board.thunks) < MaxThunks
  /\ i \in 1..Len(board.tasks)
  /\ board' = Dispatched(board, client, "deleteTask", board.tasks[i].id, <<>>)
  /\ UNCHANGED <<taskVars, accountVars, gate, now, boot, client>>

\* thunk r with the answer of the server
Answered(r, code, payload) ==
  [r EXCEPT !.phase = "answered", !.code = code, !.payload = payload]

\* the server handles the request of thunk r: authenticateToken, then the
\* handler of the route, here without a second request between its lookup
\* and its write
ServeThunk(r) ==
  LET run == GateOutcome(r.header, now)
      caller == run.user.userId
      own == PrismaTaskFindFirst(tasks, r.id, caller)
      answer(code, payload) ==
        board' = [board EXCEPT
                    !.thunks = (@ (-) SetToBag({r}))
                                 (+) SetToBag({Answered(r, code, payload)})]
  IN
  /\ BagIn(r, board.thunks)
  /\ r.phase = "sent"
  /\ IF run.code # 0
     THEN /\ answer(run.code, <<>>)
          /\ UNCHANGED <<tasks, nextTaskId, createdBy>>
     ELSE IF r.call = "fetchTasks"
     THEN /\ \E found \in PrismaTaskFindMany(tasks, caller) : answer(200, found)
          /\ UNCHANGED <<tasks, nextTaskId, createdBy>>
     ELSE IF r.call = "createTask"
     THEN LET data == CreateData(Body(<<"a">>, Undefined, <<"PENDING">>))
              task == Task(nextTaskId, data.title, data.description,
                           data.status, caller, now)
          IN /\ tasks' = tasks \cup {task}
             /\ nextTaskId' = nextTaskId + 1
             /\ createdBy' = [i \in 1..nextTaskId |->
                                IF i = nextTaskId THEN caller ELSE createdBy[i]]
             /\ answer(201, <<task>>)
     ELSE IF own = {}
     THEN /\ answer(404, <<>>)
          /\ UNCHANGED <<tasks, nextTaskId, createdBy>>
     ELSE IF r.call = "updateTask"
     THEN LET row == CHOOSE t \in own : TRUE
              new == ApplyUpdate(row, UpdateData(Body(Undefined, Undefined, r.status)))
          IN /\ tasks' = (tasks \ {row}) \cup {new}
             /\ answer(200, <<new>>)
             /\ UNCHANGED <<nextTaskId, createdBy>>
     ELSE /\ tasks' = PrismaTaskDelete(tasks, r.id)
          /\ answer(200, <<>>)
          /\ UNCHANGED <<nextTaskId, createdBy>>
  /\ UNCHANGED <<pending, last>>
  /\ UNCHANGED <<accountVars, gate, now, boot, client>>

\* the response of thunk r arrives and its reducer runs
SettleThunk(r) ==
  /\ BagIn(r, board.thunks)
  /\ r.phase = "answered"
  /\ board' = ThunkSettled([board EXCEPT !.thunks = @ (-) SetToBag({r})], r)
  /\ UNCHANGED <<taskVars, accountVars, gate, now, boot, client>>

\* ------------------------------------------------------------------------
\* Start of the server process (index.ts, utils/jwt)
\* ------------------------------------------------------------------------
\* values that a deployment gives to JWT_SECRET
ConfiguredSecrets == { "env-secret", "file-secret" }

\* JWT_SECRET as the shell environment or backend/.env may hold it: <<>>
\* stands for a variable that is not set
SecretSettings == { <<>>, <<"">> } \cup { <<k>> : k \in ConfiguredSecrets }

\* the process at one point of index.ts: env is process.env.JWT_SECRET, file
\* the JWT_SECRET line of backend/.env, secret the constant of utils/jwt
\* once that module has been evaluated, token the last token signed and
\* decoded the last result of verifyToken
Server(pc, env, file, secret, token, decoded) ==
  [pc |-> pc, env |-> env, file |-> file, secret |-> secret, token |-> token,
   decoded |-> decoded]

NotVerified == JwtError("none")

\* no process
ServerOff == Server("off", <<>>, <<>>, <<>>, <<>>, NotVerified)

\* `node dist/index.js` in a shell whose environment and backend/.env hold
\* these settings
StartServer(env, file) ==
  /\ boot.pc = "off"
  /\ boot' = Server("start", env, file, <<>>, <<>>, NotVerified)
  /\ UNCHANGED <<taskVars, accountVars, gate, now, client, board>>

\* process.env.JWT_SECRET || 'your-secret-key'
SecretOrDefault(env) ==
  IF env # <<>> /\ env[1] # "" THEN env[1] ELSE JWT_SECRET

\* the constant JWT_SECRET of utils/jwt, evaluated when the module is first
\* imported, in a process with this environment and this backend/.env
ModuleSecret(env, file) == SecretOrDefault(env)

\* the imports of index.ts: ./routes/authRoutes and ./routes/taskRoutes load
\* the controllers and the middleware, and with them utils/jwt
ImportRoutes ==
  /\ boot.pc = "start"
  /\ boot' = [boot EXCEPT !.pc = "imported",
                          !.secret = <<ModuleSecret(boot.env, boot.file)>>]
  /\ UNCHANGED <<taskVars, accountVars, gate, now, client, board>>

\* dotenv.config(): a variable of backend/.env is set in process.env unless
\* the environment has it already
DotenvConfig ==
  /\ boot.pc = "imported"
  /\ boot' = [boot EXCEPT !.pc = "configured",
                          !.env = IF boot.env # <<>> THEN boot.env ELSE boot.file]
  /\ UNCHANGED <<taskVars, accountVars, gate, now, client, board>>

\* app.listen(port)
Listen ==
  /\ boot.pc = "configured"
  /\ boot' = [boot EXCEPT !.pc = "listening"]
  /\ UNCHANGED <<taskVars, accountVars, gate, now, client, board>>

\* generateToken(payload) in the running process
ServerGenerateToken(payload) ==
  /\ boot.pc = "listening"
  /\ boot' = [boot EXCEPT
                !.token = <<JwtSign(payload, boot.secret[1], ExpiresIn, now)>>,
                !.decoded = NotVerified]
  /\ UNCHANGED <<taskVars, accountVars, gate, now, client, board>>

\* verifyToken(token) in the running process
ServerVerifyToken(token) ==
  /\ boot.pc = "listening"
  /\ boot' = [boot EXCEPT !.token = <<token>>,
                          !.decoded = JwtVerify(token, boot.secret[1], now)]
  /\ UNCHANGED <<taskVars, accountVars, gate, now, client, board>>

\* tokens that reach verifyToken: signed at time 0 with a configured secret
\* or with the fallback
PresentedTokens ==
  { JwtSign(Payload(1, <<"a">>), k, ExpiresIn, 0) :
      k \in ConfiguredSecrets \cup {JWT_SECRET} }

\* ------------------------------------------------------------------------
\* Specifications
\* ------------------------------------------------------------------------
Init ==
  /\ tasks = {}
  /\ nextTaskId = 1
  /\ createdBy = <<>>
  /\ now = 0
  /\ pending = EmptyBag
  /\ last = NoResponse
  /\ users = {}
  /\ nextUserId = 1
  /\ authPending = EmptyBag
  /\ authLast = NoAuthResponse
  /\ gate = NoGateRun
  /\ client = LoadPage("/login", Null, Null)
  /\ boot = ServerOff
  /\ board = InitialBoard

vars ==
  <<tasks, nextTaskId, createdBy, now, pending, last, users, nextUserId,
    authPending, authLast, gate, client, boot, board>>

\* the task service
Next ==
  \/ \E caller \in Callers : GetTasks(caller)
  \/ \E caller \in Callers, body \in CreateBodies, dt \in {0, 1} :
       CreateTask(caller, body, dt)
  \/ \E caller \in Callers, id \in IdStrings, body \in UpdateBodies :
       UpdateTaskLookup(caller, id, body)
  \/ \E p \in BagToSet(pending) : UpdateTaskWrite(p)
  \/ \E caller \in Callers, id \in IdStrings : DeleteTaskLookup(caller, id)
  \/ \E p \in BagToSet(pending) : DeleteTaskWrite(p)
  \/ Deliver

Spec == Init /\ [][Next]_vars

\* the account service
AuthNext ==
  \/ \E username \in Usernames, password \in Passwords :
       RegisterLookup(username, password)
  \/ \E p \in BagToSet(authPending), salt \in BcryptSalts :
       RegisterPersist(p, salt)
  \/ \E username \in Usernames, password \in Passwords :
       Login(username, password)
  \/ DeliverAuth
  \/ Tick

AuthSpec == Init /\ [][AuthNext]_vars

\* the task service with several tasks per user and well-formed requests
MaxListed == MaxTasks + 1

ListIds == { <<ToString(i)>> : i \in 1..MaxListed }

ListCreateBodies == { Body(<<"a">>, Undefined, Undefined) }

ListUpdateBodies == { Body(Undefined, Undefined, <<"COMPLETED">>) }

ListNext ==
  \/ \E caller \in UserIds : GetTasks(caller)
  \/ \E caller \in UserIds, body \in ListCreateBodies, dt \in {0, 1} :
       CreateTaskWithin(caller, body, dt, MaxListed)
  \/ \E caller \in UserIds, id \in ListIds, body \in ListUpdateBodies :
       UpdateTaskLookup(caller, id, body)
  \/ \E p \in BagToSet(pending) : UpdateTaskWrite(p)
  \/ \E caller \in UserIds, id \in ListIds : DeleteTaskLookup(caller, id)
  \/ \E p \in BagToSet(pending) : DeleteTaskWrite(p)
  \/ Deliver

ListSpec == Init /\ [][ListNext]_vars

\* the task service with requests that run side by side: well-formed
\* updates and deletes, of which MaxRacing can wait for their write
MaxRacing == MaxReq + 1

RaceUpdateBodies ==
  { Body(Undefined, Undefined, status) : status \in TaskStatus }

RaceNext ==
  \/ \E caller \in UserIds : GetTasks(caller)
  \/ \E caller \in UserIds, body \in ListCreateBodies :
       CreateTask(caller, body, 0)
  \/ \E caller \in UserIds, id \in ListIds, body \in RaceUpdateBodies :
       UpdateTaskLookupWithin(caller, id, body, MaxRacing)
  \/ \E p \in BagToSet(pending) : UpdateTaskWrite(p)
  \/ \E caller \in UserIds, id \in ListIds :
       DeleteTaskLookupWithin(caller, id, MaxRacing)
  \/ \E p \in BagToSet(pending) : DeleteTaskWrite(p)
  \/ Deliver

RaceSpec == Init /\ [][RaceNext]_vars

\* the browser client, its requests answered by the server
ClientNext ==
  \/ \E call \in AuthCalls : SendAuthCall(call)
  \/ \E call \in TaskCalls : SendTaskCall(call)
  \/ \E r \in BagToSet(client.inflight), status \in {200, 201, 400, 401, 500},
        user \in ClientUsers : ReceiveAuth(r, status, user)
  \/ \E r \in BagToSet(client.inflight), status \in {200, 401, 403, 404, 500} :
       ReceiveTask(r, status)
  \/ Logout
  \/ \E path \in Paths : Navigate(path)
  \/ Tick

ClientSpec == Init /\ [][ClientNext]_vars

\* the auth gate
GateNext ==
  \/ \E header \in Headers(now) : AuthenticateToken(header)
  \/ Tick

GateSpec == Init /\ [][GateNext]_vars

\* the server process from its start
BootNext ==
  \/ \E env \in SecretSettings, file \in SecretSettings : StartServer(env, file)
  \/ ImportRoutes
  \/ DotenvConfig
  \/ Listen
  \/ \E payload \in GateIdentities : ServerGenerateToken(payload)
  \/ \E token \in PresentedTokens : ServerVerifyToken(token)
  \/ Tick

BootSpec == Init /\ [][BootNext]_vars

\* positions of the task list
MaxShown == MaxTasks + 1

\* the browser with its task state, and the server that answers it
BoardNext ==
  \/ \E user \in ClientUsers : SignIn(user)
  \/ SignOut
  \/ OtherTabLogout
  \/ SubmitCreate
  \/ \E i \in 1..MaxShown : ToggleStatus(i)
  \/ \E i \in 1..MaxShown : ConfirmDelete(i)
  \/ \E r \in BagToSet(board.thunks) : ServeThunk(r)
  \/ \E r \in BagToSet(board.thunks) : SettleThunk(r)

BoardSpec == Init /\ [][BoardNext]_vars

\* ------------------------------------------------------------------------
\* Properties of the task controller
\* ------------------------------------------------------------------------
IdOps == {"updateTask", "deleteTask"}

\* the response in delivery answers an update or delete on the id of a task
\* that was created by a user other than the caller
ForeignTaskRequest ==
  /\ last.op \in IdOps
  /\ last.caller \in UserIds
  /\ ~IsNaN(ParseInt(last.id))
  /\ ParseInt(last.id).val \in DOMAIN createdBy
  /\ createdBy[ParseInt(last.id).val] # last.caller

\* C1: Ownership isolation.  A list answered to a caller holds only tasks
\* that the caller owns; an update or delete that a user sends against the
\* id of a task created by another user is answered 404 "Task not found or
\* access denied" without any write and leaves the table unchanged; and no
\* request ever waits to write to a task that someone else created.
OwnershipIsolation ==
  /\ (last.op = "getTasks" /\ last.code = 200) =>
        \A i \in 1..Len(last.tasks) :
           /\ last.tasks[i].userId = last.caller
           /\ createdBy[last.tasks[i].id] = last.caller
  /\ ForeignTaskRequest =>
        /\ last.code = 404
        /\ last.error = "Task not found or access denied"
        /\ last.log = <<"findFirst">>
        /\ ~last.changed
  /\ \A p \in BagToSet(pending) : createdBy[p.taskId] = p.caller
  /\ \A t \in tasks : createdBy[t.id] = t.userId

\* C1 witness: a user's update or delete against a stored task of another
\* user has been answered 404
ForeignRequestRefused ==
  /\ ForeignTaskRequest
  /\ last.code = 404
  /\ \E t \in tasks : t.id = ParseInt(last.id).val /\ t.userId # last.caller

\* C2: A request that carries no caller identity is answered 401 "User not
\* authenticated" by each of the four handlers, whatever its :id and body
\* are, with no call of the Prisma client and no change of the table, and it
\* never reaches the write step.
NoIdentityRejectedFirst ==
  /\ (last.op # "none" /\ last.caller = NoIdentity) =>
        /\ last.code = 401
        /\ last.error = "User not authenticated"
        /\ last.log = <<>>
        /\ ~last.changed
  /\ \A p \in BagToSet(pending) : p.caller # NoIdentity

\* C2 witness: an update without identity whose :id is not a number and
\* whose title is empty has been answered 401
NoIdentityBadRequest401 ==
  /\ last.op = "updateTask"
  /\ last.caller = NoIdentity
  /\ IsNaN(ParseInt(last.id))
  /\ last.body.title = <<>>
  /\ last.code = 401

\* a decimal integer: an optional sign followed by decimal digits only
IsDecimalInteger(s) ==
  LET digits == IF s # <<>> /\ s[1] \in {"-", "+"} THEN Tail(s) ELSE s
  IN digits # <<>> /\ \A i \in 1..Len(digits) : IsDigit(digits[i])

\* C3: Every authenticated update or delete whose :id is not a decimal
\* integer is answered 400 "Invalid task ID" with no ownership lookup and no
\* write, and never reaches the write step.
NonNumericIdRejected ==
  /\ (last.op \in IdOps /\ last.caller # NoIdentity /\ ~IsDecimalInteger(last.id)) =>
        /\ last.code = 400
        /\ last.error = "Invalid task ID"
        /\ last.log = <<>>
  /\ \A p \in BagToSet(pending) : IsDecimalInteger(p.id)

\* ------------------------------------------------------------------------
\* Properties of the account service
\* ------------------------------------------------------------------------
RequiredMessage == "Username and password are required"

TooShortMessage == "Password must be at least 6 characters long"

ExistsMessage == "Username already exists"

\* the response in delivery answers a register request for a username that
\* was registered when the request arrived
DuplicateRegistration == authLast.op = "register" /\ authLast.existed

UsernamesUnique ==
  \A u1, u2 \in users :
     (u1.username = u2.username \/ u1.id = u2.id) => u1 = u2

\* C5 witness: a register request that passed its lookup found the username
\* taken at its insert, by a request that ran in between
LostRegistrationRace ==
  /\ authLast.op = "register"
  /\ authLast.code = 500
  /\ Registered(users, authLast.username)

\* what the client sees of a response
Visible(r) == <<r.code, r.error, r.token, r.user>>

\* the token of the response in delivery verifies to the identity of user u
\* at every time before its expiry
TokenVerifiesTo(u) ==
  \A t \in now..(now + ExpiresIn - 1) :
     LET decoded == VerifyToken(authLast.token, t)
     IN /\ decoded.ok
        /\ decoded.payload.userId = u.id
        /\ decoded.payload.username = u.username

LoginFails(username, password) ==
  /\ Provided(username)
  /\ Provided(password)
  /\ \/ ~Registered(users, username)
     \/ \E u \in users :
          u.username = username /\ ~BcryptCompare(password, u.password)

\* C7: A login with an unknown username and a login with a known username
\* and a wrong password get the same response: 401 {error: "Invalid
\* credentials"}, no token and no user.
LoginFailuresIndistinguishable ==
  /\ LET failing == { c \in Usernames \X Passwords : LoginFails(c[1], c[2]) }
     IN Cardinality({ Visible(LoginOutcome(users, c[1], c[2], now)) : c \in failing }) <= 1
  /\ (authLast.op = "login" /\ LoginFails(authLast.username, authLast.password)) =>
        Visible(authLast) = <<401, "Invalid credentials", NoToken, NoUser>>

\* C7 witness: a login with a wrong password for a registered username has
\* been answered 401 while another username is not registered
WrongPasswordRefused ==
  /\ authLast.op = "login"
  /\ authLast.code = 401
  /\ Registered(users, authLast.username)
  /\ \E un \in Usernames : Provided(un) /\ ~Registered(users, un)

StartsWith(s, prefix) ==
  IsString(s) /\ Len(s) >= Len(prefix) /\ SubSeq(s, 1, Len(prefix)) = prefix

GateRan == gate # NoGateRun

\* C9: authenticateToken answers 401 {error: "Access token required"} when
\* the Authorization header is absent, does not begin with "Bearer ", or is
\* just "Bearer"; in these cases verifyToken is not invoked, next() is not
\* called and no identity is attached.
MissingTokenRejected ==
  (GateRan /\ ~StartsWith(gate.header, BearerPrefix)) =>
     /\ gate.code = 401
     /\ gate.error = "Access token required"
     /\ gate.verified = <<>>
     /\ ~gate.next
     /\ gate.user = NoRequestUser

\* C9 witness: a request whose header is just "Bearer" has been answered 401
JustBearerRefused ==
  /\ gate.header = <<"B", "e", "a", "r", "e", "r">>
  /\ gate.code = 401

\* the token is malformed, signed with another secret, or expired at time t
TokenInvalid(token, t) ==
  IF ~JwtWellFormed(token) THEN TRUE
  ELSE IF JwtSignature(token) # JWT_SECRET THEN TRUE
  ELSE JwtDecode(token).exp <= t

\* what the caller and the next handler see of a run of the gate
GateVisible(g) == <<g.code, g.error, g.user, g.next>>

GateNextXorResponse ==
  GateRan =>
     /\ gate.next <=> gate.code = 0
     /\ gate.next <=>
          /\ StartsWith(gate.header, BearerPrefix)
          /\ gate.verified # <<>>
          /\ ~TokenInvalid(gate.verified[1], gate.at)
     /\ gate.next =>
          /\ gate.error = ""
          /\ gate.user = Payload(JwtDecode(gate.verified[1]).userId,
                                 JwtDecode(gate.verified[1]).username)
          /\ gate.user \in GateIdentities
     /\ ~gate.next =>
          /\ gate.code \in {401, 403}
          /\ gate.error # ""
          /\ gate.user = NoRequestUser

\* C11 witness: a request with a token that verifies has passed the gate some
\* time after the token was issued
VerifiedRequestPassed ==
  /\ gate.next
  /\ gate.code = 0
  /\ gate.user \in GateIdentities
  /\ gate.at > JwtDecode(gate.verified[1]).iat

\* the times at which tokens are issued
IssueTimes == { i \in {0, ClockStep} : i <= now }

\* the tokens a client holds that the server did not issue
ForeignTokens == { tok \in TokenStrings(now) : TokenInvalid(tok, 0) }

Blank(v) == ~IsString(v) \/ \A i \in 1..Len(v) : IsSpace(v[i])

\* a step in which createTask answers an authenticated caller
CreateStep ==
  /\ last = NoResponse
  /\ last'.op = "createTask"
  /\ last'.caller \in UserIds

\* the step stores nothing and answers 400 "Title is required"
CreateRefusesTitle ==
  /\ last'.code = 400
  /\ last'.error = "Title is required"
  /\ last'.log = <<>>
  /\ tasks' = tasks

\* the step stores exactly one new task, made of the request as create says
CreateStoresOne ==
  LET body == last'.body
  IN /\ last'.code = 201
     /\ \E t \in tasks' \ tasks :
          /\ tasks' = tasks \cup {t}
          /\ \A old \in tasks : old.id # t.id
          /\ t.userId = last'.caller
          /\ t.title = Trim(body.title)
          /\ ~IsSpace(Head(t.title)) /\ ~IsSpace(t.title[Len(t.title)])
          /\ t.description =
               IF Blank(body.description) THEN Null ELSE Trim(body.description)
          /\ t.status =
               IF body.status \in TaskStatus THEN body.status ELSE <<"PENDING">>
          /\ last'.tasks = <<t>>
          \* a list by the same caller right after the create includes it
          /\ \A listed \in PrismaTaskFindMany(tasks', last'.caller) :
               \E i \in 1..Len(listed) : listed[i] = t

ListAnswered == last.op = "getTasks" /\ last.caller \in UserIds

\* C14: list answers 200 with exactly the stored tasks that the caller owns,
\* none missing, none extra and none twice, ordered by createdAt descending,
\* and with total equal to the number of tasks returned; a caller without
\* tasks gets {tasks: [], total: 0}.
ListExactAndOrdered ==
  ListAnswered =>
     /\ last.code = 200
     /\ { last.tasks[i] : i \in 1..Len(last.tasks) }
          = { t \in tasks : t.userId = last.caller }
     /\ \A i, j \in 1..Len(last.tasks) :
          /\ i # j => last.tasks[i] # last.tasks[j]
          /\ i < j => last.tasks[i].createdAt >= last.tasks[j].createdAt
     /\ last.total = Len(last.tasks)
     /\ (\A t \in tasks : t.userId # last.caller) =>
          (last.tasks = <<>> /\ last.total = 0)

\* C14 witness: a caller has been answered a list of two tasks created at
\* different times, the later one first
TwoTasksListed ==
  /\ ListAnswered
  /\ last.total = 2
  /\ last.tasks[1].createdAt > last.tasks[2].createdAt

\* a step in which updateTask answers an authenticated caller
UpdateStep ==
  /\ last = NoResponse
  /\ last'.op = "updateTask"
  /\ last'.caller \in UserIds

\* the value that a supplied description is stored as
StoredDescription(d) == IF Blank(d) THEN Null ELSE Trim(d)

\* new is old with the supplied fields of body replaced and nothing else
PartiallyUpdated(old, new, body) ==
  /\ new.id = old.id
  /\ new.userId = old.userId
  /\ new.createdAt = old.createdAt
  /\ new.title = IF body.title = Undefined THEN old.title ELSE Trim(body.title)
  /\ new.description =
       IF body.description = Undefined THEN old.description
       ELSE StoredDescription(body.description)
  /\ new.status = IF body.status = Undefined THEN old.status ELSE body.status

\* C15: update has partial-update semantics.  A successful update (200)
\* changes the one task it names, which the caller owns: each of title,
\* description and status that the request supplies (an explicit null
\* description included) replaces the stored value, title and description
\* trimmed; each field that the request omits, and the id, the owner and
\* createdAt, keep their values; no other task changes; the response is the
\* task as stored.  With no field supplied the task is returned unchanged.
\* An update that is not answered 200 changes nothing.
UpdateIsPartial ==
  [][UpdateStep =>
       IF last'.code = 200
       THEN \E old \in tasks, new \in tasks' :
              /\ old.id = ParseInt(last'.id).val
              /\ old.userId = last'.caller
              /\ tasks' = (tasks \ {old}) \cup {new}
              /\ PartiallyUpdated(old, new, last'.body)
              /\ last'.tasks = <<new>>
              /\ last'.body = EmptyBody => new = old
       ELSE tasks' = tasks]_vars

\* C15 witness: an update that supplies an explicit null description and a
\* status but no title has changed the task and kept its title
TitleKeptDescriptionCleared ==
  /\ last.op = "updateTask"
  /\ last.code = 200
  /\ last.body.title = Undefined
  /\ last.body.description = Null
  /\ last.changed
  /\ last.tasks[1].title = <<"a">>
  /\ last.tasks[1].description = Null
  /\ last.tasks[1] \in tasks

\* the ids of the tasks that were created and are no longer stored
DeletedIds == { i \in DOMAIN createdBy : \A t \in tasks : t.id # i }

\* a step in which deleteTask answers 200
DeleteSucceeds ==
  /\ last = NoResponse
  /\ last'.op = "deleteTask"
  /\ last'.code = 200

\* a step in which a request that arrives for the id of a deleted task is
\* answered
DeletedIdRequested ==
  /\ last = NoResponse
  /\ pending' = pending
  /\ last'.op \in IdOps
  /\ last'.caller \in UserIds
  /\ ~IsNaN(ParseInt(last'.id))
  /\ ParseInt(last'.id).val \in DeletedIds

\* C16: delete is permanent.  A delete answered 200 "Task deleted
\* successfully" removes the task of the caller that it names; a task that
\* was removed is never stored again, whatever requests follow, so no list
\* answered later contains it; and every update or delete that arrives later
\* for the same id is answered 404 "Task not found or access denied" and
\* changes nothing.
DeleteIsPermanent ==
  /\ [][DeleteSucceeds =>
          /\ last'.error = "Task deleted successfully"
          /\ \E t \in tasks :
               /\ t.id = ParseInt(last'.id).val
               /\ t.userId = last'.caller
               /\ tasks' = tasks \ {t}
          /\ ParseInt(last'.id).val \in DeletedIds']_vars
  /\ [][DeletedIds \subseteq DeletedIds']_vars
  /\ [](ListAnswered =>
          \A i \in 1..Len(last.tasks) : last.tasks[i].id \notin DeletedIds)
  /\ [][DeletedIdRequested =>
          /\ last'.code = 404
          /\ last'.error = "Task not found or access denied"
          /\ tasks' = tasks]_vars

\* C16 witness: after a task was deleted and another one created, the owner
\* of the deleted task has asked to update or delete it again and got 404
DeletedTaskStaysGone ==
  /\ last.op \in IdOps
  /\ last.code = 404
  /\ ParseInt(last.id).val \in DeletedIds
  /\ createdBy[ParseInt(last.id).val] = last.caller
  /\ \E t \in tasks : t.id > ParseInt(last.id).val

SessionCleared ==
  /\ client.lsToken = Null
  /\ client.lsUser = Null
  /\ client.auth.token = Null
  /\ client.auth.user = NoUser
  /\ ~client.auth.isAuthenticated

\* C18 as stated: whenever an API call of the client, of the auth routes or
\* of the task routes (fetchTasks, createTask, updateTask, deleteTask), has
\* received a 401 response while the browser was on neither /login nor
\* /register, the session of the client is cleared and the browser is on
\* /login.
SessionClearedOn401 ==
  (client.reply.status = 401 /\ client.reply.path \notin {"/login", "/register"}) =>
     (SessionCleared /\ client.path = "/login")

\* C19 as stated: when the server has rejected the token that the client
\* holds, expired or invalid, in answer to an authenticated request of the
\* client, the stored token and user are removed and isAuthenticated is
\* false once that request has completed.
SessionClearedOnRejectedToken ==
  (/\ client.reply.call \in TaskCalls
   /\ StartsWith(client.reply.header, BearerPrefix)
   /\ client.reply.status = 403) =>
     SessionCleared

\* C20: The storage entries meatec_token and meatec_user are set together
\* and cleared together: from empty storage, after any sequence of login,
\* register, logout and interceptor events, both are present or both absent.
StorageEntriesTogether == (client.lsToken = Null) <=> (client.lsUser = Null)

\* C20 witness: the interceptor has answered a 401 of an auth call that
\* arrived on the dashboard, where a session was stored, and both entries
\* are gone
InterceptorClearedBoth ==
  /\ client.reply.call \in AuthCalls
  /\ client.reply.status = 401
  /\ client.reply.path = "/dashboard"
  /\ client.lsToken = Null
  /\ client.lsUser = Null
  /\ client.path = "/login"

\* the server is ready to take a request for a task
ServerIdle == last = NoResponse /\ BagCardinality(pending) < MaxReq

\* the update requests that are waiting to write one of the two status values
\* to a task that is stored
StatusWrites ==
  { p \in BagToSet(pending) :
      /\ p.op = "updateTask"
      /\ p.body.status \in TaskStatus
      /\ RowById(tasks, p.taskId) # {} }

\* the step changes the status of a task that stays stored
StatusChanges ==
  \E old \in tasks, new \in tasks' : old.id = new.id /\ old.status # new.status

EmptyTitleUpdate ==
  /\ last.op = "updateTask"
  /\ IsString(last.body.title)
  /\ Trim(last.body.title) = <<>>

\* the caller of the response in delivery owns a stored task with the
\* requested id
OwnTaskRequested ==
  /\ ~IsNaN(ParseInt(last.id))
  /\ PrismaTaskFindFirst(tasks, ParseInt(last.id).val, last.caller) # {}

\* C22: updateTask applies its checks in a fixed order.  An update that has
\* not reached its write is answered 401 when it has no identity, whatever
\* its id and title are; otherwise 400 "Invalid task ID" when the id does not
\* parse, whatever the title is; otherwise 404 after the lookup when the
\* caller owns no stored task with that id, whatever the title is; and only
\* an update of an own task is answered 400 "Title cannot be empty" for an
\* empty title, with the table unchanged.  No update with an empty title
\* waits to write.
UpdateCheckOrder ==
  /\ (last.op = "updateTask" /\ last.log # <<"findFirst", "update">>) =>
        IF last.caller = NoIdentity
        THEN last.code = 401 /\ last.error = "User not authenticated"
        ELSE IF IsNaN(ParseInt(last.id))
        THEN last.code = 400 /\ last.error = "Invalid task ID" /\ last.log = <<>>
        ELSE IF ~OwnTaskRequested
        THEN /\ last.code = 404
             /\ last.error = "Task not found or access denied"
             /\ last.log = <<"findFirst">>
        ELSE EmptyTitleUpdate =>
                /\ last.code = 400
                /\ last.error = "Title cannot be empty"
                /\ last.log = <<"findFirst">>
  /\ (last.op = "updateTask" /\ last.code \in {400, 401, 404}) => ~last.changed
  /\ \A p \in BagToSet(pending) :
        (p.op = "updateTask" /\ IsString(p.body.title)) => Trim(p.body.title) # <<>>

\* C22 witness: an update with an empty title against a stored task of
\* another user has been answered 404
EmptyTitleOnForeignTask404 ==
  /\ EmptyTitleUpdate
  /\ ForeignTaskRequest
  /\ \E t \in tasks : t.id = ParseInt(last.id).val
  /\ last.code = 404

\* a stored title: a string that is not empty and neither starts nor ends
\* with white space
CleanTitle(v) ==
  /\ IsString(v)
  /\ v # <<>>
  /\ ~IsSpace(v[1])
  /\ ~IsSpace(v[Len(v)])

\* the step answers a create whose title is missing, null, empty or white
\* space, or an update that supplies a title that is null, empty or white
\* space
TitleRuleViolated ==
  /\ last = NoResponse
  /\ \/ last'.op = "createTask" /\ Blank(last'.body.title)
     \/ last'.op = "updateTask" /\ last'.body.title # Undefined
                                /\ Blank(last'.body.title)

\* C23: every stored task title is a non-empty string without leading or
\* trailing white space, whatever titles the create and update requests
\* carry (missing, null, empty, white space only, padded), and a request
\* whose title breaks the rule is refused and changes no stored task.
StoredTitlesClean ==
  /\ [](\A t \in tasks : CleanTitle(t.title))
  /\ [][TitleRuleViolated =>
          /\ tasks' = tasks
          /\ pending' = pending
          /\ last'.code \notin {200, 201}]_vars

\* C23 witness: an update with the title " b" has been written and the task
\* is stored with the title "b"
PaddedUpdateStoredTrimmed ==
  /\ last.op = "updateTask"
  /\ last.code = 200
  /\ last.body.title = <<" ", "b">>
  /\ \E t \in tasks : t.id = ParseInt(last.id).val /\ t.title = <<"b">>

\* ------------------------------------------------------------------------
\* Token extraction with extra spaces
\* ------------------------------------------------------------------------
\* the header is "Bearer", several spaces, and text that starts with a
\* character that is no space
SeveralSpacesBeforeToken(header) ==
  /\ StartsWith(header, BearerPrefix \o <<" ">>)
  /\ TrimStart(ExtractToken(header)) # <<>>

\* C24 as stated: when the header is "Bearer" followed by several spaces, a
\* token and possibly trailing spaces, authenticateToken hands to verifyToken
\* the text from the first character after the prefix that is no space up to
\* the end of the header, and the request is authenticated when verifyToken
\* accepts that text.
ExtraSpacesTokenExtracted ==
  (GateRan /\ SeveralSpacesBeforeToken(gate.header)) =>
     LET token == TrimStart(ExtractToken(gate.header))
     IN /\ gate.verified = <<token>>
        /\ VerifyToken(token, gate.at).ok =>
             /\ gate.code = 0
             /\ gate.next
             /\ gate.user = VerifyToken(token, gate.at).payload

\* ------------------------------------------------------------------------
\* Properties of the start of the server
\* ------------------------------------------------------------------------
\* JWT_SECRET as the process is configured once index.ts has run: the value
\* of the environment, else the value of backend/.env
ConfiguredSecret ==
  IF boot.env # <<>> /\ boot.env[1] # "" THEN <<boot.env[1]>> ELSE <<>>

\* C25 as stated: in the running server the secret that generateToken and
\* verifyToken use is the configured JWT_SECRET whenever one is configured,
\* in the environment or in backend/.env loaded by dotenv.config(), and the
\* fallback 'your-secret-key' only when none is configured.
ConfiguredSecretUsed ==
  boot.pc = "listening" =>
     /\ boot.secret = (IF ConfiguredSecret # <<>> THEN ConfiguredSecret
                       ELSE <<JWT_SECRET>>)
     /\ (boot.token # <<>> /\ boot.decoded = NotVerified) =>
           JwtSignature(boot.token[1]) = boot.secret[1]

\* ------------------------------------------------------------------------
\* Properties of the browser's requests and task state
\* ------------------------------------------------------------------------
\* the requests that leave the browser in this step
RequestsSent ==
  { r \in BagToSet(board'.thunks) :
      r.phase = "sent" /\ CopiesIn(r, board'.thunks) > CopiesIn(r, board.thunks) }

\* C26 as stated: every request that the client sends carries
\* "Bearer <token>" with the token that localStorage holds under
\* meatec_token at the moment of sending when one is stored, and no
\* Authorization bearer token when none is stored.
BearerTokenIffStored ==
  [][\A r \in RequestsSent :
        r.header = (IF client'.lsToken # Null THEN BearerPrefix \o client'.lsToken
                    ELSE Undefined)]_vars

\* C28 as stated: the task state shown to the user who is logged in holds
\* no task that another user owns, also after a logout followed by the login
\* of another user in the same browser session.
NoForeignTasksShown ==
  DashboardRendered =>
     \A i \in 1..Len(board.tasks) : board.tasks[i].userId = client.auth.user.id

\* C29 as stated: no two entries of state.tasks have the same id, whatever
\* the order in which the responses of the outstanding thunks arrive.
NoDuplicateTaskIds ==
  \A i, j \in 1..Len(board.tasks) :
     i # j => board.tasks[i].id # board.tasks[j].id

\* C30 as stated: loading is true in every state in which at least one task
\* request is in flight.
LoadingWhileInFlight ==
  board.thunks # EmptyBag => board.loading

\* ------------------------------------------------------------------------
\* Properties of requests that run side by side
\* ------------------------------------------------------------------------
\* the response in delivery answers an update or delete that a user sent
\* for a task that this user created
OwnTaskRequest ==
  /\ last.op \in IdOps
  /\ last.caller \in UserIds
  /\ ~IsNaN(ParseInt(last.id))
  /\ ParseInt(last.id).val \in DOMAIN createdBy
  /\ createdBy[ParseInt(last.id).val] = last.caller

\* C27 as stated: whatever the interleaving of the lookup and write steps of
\* updates and deletes that the owner sends against the same task, every
\* request is answered 200, or 404 when the task is gone, never 500.
OwnerRaceNever500 ==
  OwnTaskRequest => last.code \in {200, 404}

====
